---- MODULE Spec2Model ----
(***************************************************************************)
(* State-machine model of src/swapi.js: the fetch-and-cache layer          *)
(* (fetchResource), the five display routines driven by runDemo, and the   *)
(* HTTP routes that start runs and report the counters.                    *)
(*                                                                         *)
(* Node runs one callback at a time and drains the promise continuations   *)
(* of a callback before it takes the next event.  The variable `active`    *)
(* is the run whose continuation is executing: while it is not 0 only      *)
(* that run steps, and every event handler waits.                          *)
(***************************************************************************)
EXTENDS Integers, Sequences, FiniteSets, TLC

\* ------------------------------------------------------------------ bounds
MaxRuns == 2        \* GET /api requests handled in one behaviour
MaxDate == 2        \* films of a page, each with its own release date

\* ------------------------------------------------------- program constants
DEFAULT_TIMEOUT == 5000
MAX_VEHICLE_ID == 4
ERROR_STATUS == 400

Runs == 1..MaxRuns
Dates == 1..MaxDate

\* ------------------------------------------------------------- JSON values
\* A parsed JSON value: null, the number 0 (a falsy primitive), an object
\* without a results array, or a page object {"results":[film, ...]} whose
\* films are identified by their release date.
JNull == [kind |-> "null", results |-> <<>>]
JZero == [kind |-> "zero", results |-> <<>>]
JObj == [kind |-> "object", results |-> <<>>]
JPage(s) == [kind |-> "page", results |-> s]

\* The results arrays of the pages the service sends: the films 1..MaxDate in
\* every order.
ResultLists == {s \in [Dates -> Dates] : \A i, j \in Dates : s[i] = s[j] => i = j}
Values == {JNull, JZero, JObj} \cup {JPage(s) : s \in ResultLists}

Digit(d) == <<"0", "1", "2", "3", "4", "5", "6", "7", "8", "9">>[d + 1]

\* The release date of film d, an ISO date string.
DateText(d) == "197" \o Digit(d) \o "-05-25"

FilmText(d) ==
    "{\"release_date\":\"" \o DateText(d) \o "\",\"characters\":[],\"planets\":[]}"

RECURSIVE JoinFilms(_)
JoinFilms(s) ==
    IF s = <<>> THEN ""
    ELSE IF Len(s) = 1 THEN FilmText(s[1])
    ELSE FilmText(s[1]) \o "," \o JoinFilms(Tail(s))

\* JSON.stringify(value)
Stringify(v) ==
    CASE v.kind = "null" -> "null"
      [] v.kind = "zero" -> "0"
      [] v.kind = "object" -> "{}"
      [] v.kind = "page" -> "{\"results\":[" \o JoinFilms(v.results) \o "]}"

\* Response bodies the service can send: the text of every value, and an
\* HTML error page.
Bodies == {Stringify(v) : v \in Values} \cup {"<html>"}

IsJson(text) == \E v \in Values : Stringify(v) = text

\* JSON.parse(text) of a text that is valid JSON; it throws on the others.
JSONParse(text) == CHOOSE v \in Values : Stringify(v) = text

\* JavaScript truthiness of a parsed value, as tested by `if (cache[endpoint])`.
Truthy(v) == v.kind \in {"object", "page"}

\* JSON.stringify(value).length
Size(v) == Len(Stringify(v))


\* Array.prototype.sort with the comparator new Date(a) - new Date(b): the
\* stable ascending order of the release dates.
RECURSIVE InsertByDate(_, _)
InsertByDate(d, s) ==
    IF s = <<>> THEN <<d>>
    ELSE IF d < s[1] THEN <<d>> \o s
    ELSE <<s[1]>> \o InsertByDate(d, Tail(s))

RECURSIVE SortByDate(_)
SortByDate(s) ==
    IF s = <<>> THEN <<>>
    ELSE InsertByDate(s[Len(s)], SortByDate(SubSeq(s, 1, Len(s) - 1)))

\* --------------------------------------------------------------- endpoints
CharacterStep == 1
StarshipsStep == 2
PlanetsStep == 3
FilmsStep == 4
VehicleStep == 5

\* The endpoint string the display routine of step k passes to fetchResource
\* when the cursor lastCharacterId is id.
Endpoint(k, id) ==
    CASE k = CharacterStep -> "people/" \o Digit(id)
      [] k = StarshipsStep -> "starships/?page=1"
      [] k = PlanetsStep -> "planets/?page=1"
      [] k = FilmsStep -> "films/"
      [] k = VehicleStep -> "vehicles/" \o Digit(id)

\* The cursor is bumped at most once per run; a behaviour starts with a
\* cursor of at most MAX_VEHICLE_ID, so it stays within these values.
CursorValues == 1..(MAX_VEHICLE_ID + MaxRuns)
Endpoints == {Endpoint(k, id) : k \in CharacterStep..VehicleStep, id \in CursorValues}

\* What the service is taken to send for an endpoint with a successful
\* status: for every endpoint null, 0, an object without results, or text
\* that is not JSON; for the list endpoints also a page, the films page in
\* every order of its films and the other pages in release order (the
\* program reads their results without reordering them).
ServiceBodies(e) ==
    {Stringify(JNull), Stringify(JZero), Stringify(JObj), "<html>"}
    \cup (IF e = Endpoint(FilmsStep, 1)
          THEN {Stringify(JPage(s)) : s \in ResultLists}
          ELSE IF e \in {Endpoint(StarshipsStep, 1), Endpoint(PlanetsStep, 1)}
          THEN {Stringify(JPage(SortByDate(s))) : s \in ResultLists}
          ELSE {})

\* ------------------------------------------------------------------ errors
NoErr == [type |-> "none", status |-> 0]
HttpError(status) == [type |-> "http", status |-> status]
ParseError == [type |-> "parse", status |-> 0]
NetworkError == [type |-> "network", status |-> 0]
TimeoutError == [type |-> "timeout", status |-> 0]
TypeError == [type |-> "type", status |-> 0]

FetchErrorTypes == {"http", "parse", "network", "timeout"}

\* Status codes the service answers with, on both sides of the >= 400 test.
Statuses == {200, 400}

\* ------------------------------------------------------------ command line
NaN == -1

\* parseInt of the command-line words used below.
ParseIntArg(word) ==
    CASE word = "250" -> 250
      [] OTHER -> NaN

\* process.argv.slice(2) of the startups considered.
ArgLists ==
    {<<>>, <<"--timeout">>, <<"--timeout", "abc">>,
     <<"--no-debug", "--timeout", "250">>}

IndexOf(a, word) == CHOOSE i \in 1..Len(a) : a[i] = word /\ \A j \in 1..(i - 1) : a[j] # word

Includes(a, word) == \E i \in 1..Len(a) : a[i] = word

\* Mutation: debug logging off unless asked for.
DebugFromArgsInverted(a) == Includes(a, "--no-debug")

\* The value of debugMode after the flags are read.
DebugFromArgs(a) == ~Includes(a, "--no-debug")

\* The value of timeout after the flags are read.
TimeoutFromArgs(a) ==
    IF Includes(a, "--timeout") /\ IndexOf(a, "--timeout") < Len(a)
       /\ ParseIntArg(a[IndexOf(a, "--timeout") + 1]) # NaN
    THEN ParseIntArg(a[IndexOf(a, "--timeout") + 1])
    ELSE DEFAULT_TIMEOUT

\* ----------------------------------------------- the large-planets filter
LARGE_POPULATION == 1000000000
LARGE_DIAMETER == 10000

\* A JavaScript number: an integer or NaN.
Num(n) == [nan |-> FALSE, num |-> n]
NotANumber == [nan |-> TRUE, num |-> 0]
isNaN(x) == x.nan

\* x > n for a number x and an integer n; false when x is NaN.
Greater(x, n) == ~x.nan /\ x.num > n

\* The text of a field is the sequence of its characters.
HexChars == <<"0", "1", "2", "3", "4", "5", "6", "7", "8", "9",
              "a", "b", "c", "d", "e", "f">>
UpperHex == <<"A", "B", "C", "D", "E", "F">>
WhiteSpace == {" "}

\* The digits of a radix, and the value of one of them.
IsDigitOf(c, radix) ==
    \/ \E i \in 1..radix : HexChars[i] = c
    \/ radix = 16 /\ \E i \in 1..6 : UpperHex[i] = c

DigitValue(c) ==
    IF \E i \in 1..16 : HexChars[i] = c
    THEN (CHOOSE i \in 1..16 : HexChars[i] = c) - 1
    ELSE (CHOOSE i \in 1..6 : UpperHex[i] = c) + 9

RECURSIVE StripLeft(_)
StripLeft(t) == IF t # <<>> /\ t[1] \in WhiteSpace THEN StripLeft(Tail(t)) ELSE t

\* The longest prefix of t made of digits of the radix.
RECURSIVE DigitPrefix(_, _)
DigitPrefix(t, radix) ==
    IF t # <<>> /\ IsDigitOf(t[1], radix)
    THEN <<t[1]>> \o DigitPrefix(Tail(t), radix)
    ELSE <<>>

RECURSIVE DigitsValue(_, _)
DigitsValue(t, radix) ==
    IF t = <<>> THEN 0
    ELSE DigitsValue(SubSeq(t, 1, Len(t) - 1), radix) * radix + DigitValue(t[Len(t)])

\* parseInt(text): leading white space is skipped, a sign is read, then the
\* longest run of digits (hexadecimal after 0x); what follows the digits is
\* ignored, and the result is NaN when there is no digit.
ParseInt(text) ==
    LET s == StripLeft(text)
        signed == s # <<>> /\ s[1] \in {"+", "-"}
        body == IF signed THEN Tail(s) ELSE s
        hex == Len(body) >= 2 /\ body[1] = "0" /\ body[2] \in {"x", "X"}
        radix == IF hex THEN 16 ELSE 10
        digits == DigitPrefix(IF hex THEN SubSeq(body, 3, Len(body)) ELSE body, radix)
        value == DigitsValue(digits, radix)
    IN  IF digits = <<>> THEN NotANumber
        ELSE Num(IF signed /\ s[1] = "-" THEN 0 - value ELSE value)

\* The test of the forEach callback of displayLargePlanets.
IsLarge(p) ==
    LET population == ParseInt(p.population)
        diameter == ParseInt(p.diameter)
    IN  /\ ~isNaN(population) /\ Greater(population, LARGE_POPULATION)
        /\ ~isNaN(diameter) /\ Greater(diameter, LARGE_DIAMETER)

RECURSIVE Zeros(_)
Zeros(n) == IF n = 0 THEN <<>> ELSE <<"0">> \o Zeros(n - 1)

\* The field texts considered: "", "0", "unknown", numbers at and around
\* the two thresholds, "10000.5", "12000km" and "1500000000".
FieldTexts ==
    {<<>>, <<"0">>, <<"u", "n", "k", "n", "o", "w", "n">>,
     <<"1">> \o Zeros(4), <<"1">> \o Zeros(3) \o <<"1">>, <<"1", "2">> \o Zeros(3),
     <<"1">> \o Zeros(4) \o <<".", "5">>, <<"1", "2">> \o Zeros(3) \o <<"k", "m">>,
     <<"1">> \o Zeros(9), <<"1">> \o Zeros(8) \o <<"1">>, <<"1", "5">> \o Zeros(8)}

\* The elements of planets.results, by the two fields the filter reads.
Planets == [population : FieldTexts, diameter : FieldTexts]

NoPlanet == [population |-> <<>>, diameter |-> <<>>]

\* ------------------------------------------------------------------- state
VARIABLES
    cache,            \* endpoint -> parsed value; its domain is Object.keys(cache)
    errorCount,
    fetchCount,
    totalDataSize,
    lastCharacterId,
    debugMode,
    timeout,
    run,              \* per /api request: the position of its runDemo call
    req,              \* per run: the https request of its current uncached fetch
    active,           \* the run whose continuation is executing, or 0
    netCalls,         \* endpoint -> number of https.get calls issued for it
    call,             \* the latest fetchResource call
    httpOut,          \* the HTTP response written by the step just taken
    planet,           \* the element of planets.results that forEach is at
    shown             \* whether the filter printed it

vars == <<cache, errorCount, fetchCount, totalDataSize, lastCharacterId, debugMode,
          timeout, run, req, active, netCalls, call, httpOut, planet, shown>>

\* The variables of the filter, which the steps of the server leave alone.
filter == <<planet, shown>>

NoVal == [kind |-> "none", results |-> <<>>]

NoResponse == [route |-> "none", status |-> 0, type |-> "", body |-> [text |-> ""]]

\* The response of the /api route.
ApiAck ==
    [route |-> "/api", status |-> 200, type |-> "text/plain",
     body |-> [text |-> "Check server console for results"]]

IdleRun ==
    [pc |-> "idle", step |-> 0, sync |-> FALSE, endpoint |-> "", val |-> NoVal,
     err |-> NoErr, ack |-> NoResponse, issued |-> 0, bumps |-> 0, errAtStart |-> 0,
     solo |-> FALSE]

NoReq ==
    [phase |-> "none", endpoint |-> "", status |-> 0, responseData |-> "",
     settled |-> FALSE, errs |-> 0]

NoCall == [n |-> 0, run |-> 0, endpoint |-> "", cached |-> FALSE]

Init ==
    /\ \E a \in ArgLists :
          /\ debugMode = DebugFromArgs(a)
          /\ timeout = TimeoutFromArgs(a)
    /\ cache = <<>>
    /\ errorCount = 0
    /\ fetchCount = 0
    /\ totalDataSize = 0
    /\ lastCharacterId = 1
    /\ run = [r \in Runs |-> IdleRun]
    /\ req = [r \in Runs |-> NoReq]
    /\ active = 0
    /\ netCalls = [e \in Endpoints |-> 0]
    /\ call = NoCall
    /\ httpOut = NoResponse
    /\ planet = NoPlanet
    /\ shown = "none"

\* The server after earlier /api requests: WarmRuns of them have been handled
\* one after the other, each run completing before the next request, with
\* the service answering every request with status 200 and an object (a page
\* for the list endpoints).  The cache holds what these runs fetched, the
\* films in release order, and the cursor has been advanced once per run.
WarmRuns == MAX_VEHICLE_ID - 1

SortedPage == JPage(SortByDate(CHOOSE s \in ResultLists : TRUE))

WarmValue(e) ==
    IF e \in {Endpoint(StarshipsStep, 1), Endpoint(PlanetsStep, 1), Endpoint(FilmsStep, 1)}
    THEN SortedPage
    ELSE JObj

WarmEndpoints(k) == {Endpoint(s, id) : s \in CharacterStep..VehicleStep, id \in 1..k}

WarmCache(k) == [e \in WarmEndpoints(k) |-> WarmValue(e)]

\* totalDataSize after k such runs: each run adds the size of its five values.
WarmSize(k) == k * (2 * Size(JObj) + 3 * Size(SortedPage))

InitWarm ==
    /\ \E a \in ArgLists :
          /\ debugMode = DebugFromArgs(a)
          /\ timeout = TimeoutFromArgs(a)
    /\ cache = WarmCache(WarmRuns)
    /\ errorCount = 0
    /\ fetchCount = WarmRuns
    /\ totalDataSize = WarmSize(WarmRuns)
    /\ lastCharacterId = WarmRuns + 1
    /\ run = [r \in Runs |-> IdleRun]
    /\ req = [r \in Runs |-> NoReq]
    /\ active = 0
    /\ netCalls = [e \in Endpoints |-> IF e \in WarmEndpoints(WarmRuns) THEN 1 ELSE 0]
    /\ call = NoCall
    /\ httpOut = NoResponse
    /\ planet = NoPlanet
    /\ shown = "none"

\* Object.keys(cache).length
CacheSize == Cardinality(DOMAIN cache)

\* cache[endpoint] = json
CachePut(c, e, v) == [k \in (DOMAIN c) \cup {e} |-> IF k = e THEN v ELSE c[k]]

\* The test `if (cache[endpoint])` of fetchResource.
CacheHit(e) == e \in DOMAIN cache /\ Truthy(cache[e])

Ended(r) == run[r].pc \in {"idle", "done", "failed"}

Quiet(r) == Ended(r) /\ req[r].phase \in {"none", "closed"}

config == <<debugMode, timeout>>

\* ------------------------------------------------------------ fetchResource
\* resolve(json) or reject(error) of the promise of run r's request: the
\* first settlement wakes the run that awaits it, a later one does nothing.
Settle(r, pc, val, err) ==
    IF req[r].settled \/ run[r].pc # "wait"
    THEN /\ run' = run
         /\ active' = 0
    ELSE /\ run' = [run EXCEPT ![r].pc = pc, ![r].val = val, ![r].err = err]
         /\ active' = r

\* Mutation: a cache hit is counted as a fetch attempt.
FetchResourceCounting(r, e) ==
    /\ call' = [n |-> call.n + 1, run |-> r, endpoint |-> e, cached |-> CacheHit(e)]
    /\ IF CacheHit(e)
       THEN /\ run' = [run EXCEPT ![r].pc = "got", ![r].val = cache[e], ![r].endpoint = e]
            /\ active' = r
            /\ fetchCount' = fetchCount + 1
            /\ UNCHANGED <<req, netCalls>>
       ELSE /\ run' = [run EXCEPT ![r].pc = "wait", ![r].endpoint = e,
                                  ![r].issued = @ + 1]
            /\ req' = [req EXCEPT ![r] = [NoReq EXCEPT !.phase = "sent", !.endpoint = e]]
            /\ netCalls' = [netCalls EXCEPT ![e] = @ + 1]
            /\ active' = IF run[r].sync THEN r ELSE 0
            /\ fetchCount' = fetchCount
    /\ UNCHANGED <<cache, errorCount, totalDataSize, lastCharacterId>>

\* Mutation: fetchCount counts the https requests instead of the runs.
FetchResourcePerRequest(r, e) ==
    /\ call' = [n |-> call.n + 1, run |-> r, endpoint |-> e, cached |-> CacheHit(e)]
    /\ IF CacheHit(e)
       THEN /\ run' = [run EXCEPT ![r].pc = "got", ![r].val = cache[e], ![r].endpoint = e]
            /\ active' = r
            /\ fetchCount' = fetchCount
            /\ UNCHANGED <<req, netCalls>>
       ELSE /\ run' = [run EXCEPT ![r].pc = "wait", ![r].endpoint = e,
                                  ![r].issued = @ + 1]
            /\ req' = [req EXCEPT ![r] = [NoReq EXCEPT !.phase = "sent", !.endpoint = e]]
            /\ netCalls' = [netCalls EXCEPT ![e] = @ + 1]
            /\ active' = IF run[r].sync THEN r ELSE 0
            /\ fetchCount' = fetchCount + 1
    /\ UNCHANGED <<cache, errorCount, totalDataSize, lastCharacterId>>

\* fetchResource(endpoint), up to the point where it returns its promise:
\* a truthy cache entry is returned, anything else starts an https request.
FetchResource(r, e) ==
    /\ call' = [n |-> call.n + 1, run |-> r, endpoint |-> e, cached |-> CacheHit(e)]
    /\ IF CacheHit(e)
       THEN /\ run' = [run EXCEPT ![r].pc = "got", ![r].val = cache[e], ![r].endpoint = e]
            /\ active' = r
            /\ UNCHANGED <<req, netCalls>>
       ELSE /\ run' = [run EXCEPT ![r].pc = "wait", ![r].endpoint = e,
                                  ![r].issued = @ + 1]
            /\ req' = [req EXCEPT ![r] = [NoReq EXCEPT !.phase = "sent", !.endpoint = e]]
            /\ netCalls' = [netCalls EXCEPT ![e] = @ + 1]
            /\ active' = IF run[r].sync THEN r ELSE 0
    /\ UNCHANGED <<cache, errorCount, fetchCount, totalDataSize, lastCharacterId>>

\* The display routine of the run's step starts: it calls fetchResource.
\* displayVehicle does so only while the cursor is at most MAX_VEHICLE_ID;
\* past it the routine returns at once, and runDemo goes on to displayStats
\* and ends.
Call(r) ==
    /\ active = r
    /\ run[r].pc = "call"
    /\ IF run[r].step = VehicleStep /\ lastCharacterId > MAX_VEHICLE_ID
       THEN /\ run' = [run EXCEPT ![r].pc = "done"]
            /\ active' = 0
            /\ UNCHANGED <<cache, errorCount, fetchCount, totalDataSize, lastCharacterId,
                           req, netCalls, call>>
       ELSE FetchResource(r, Endpoint(run[r].step, lastCharacterId))
    /\ httpOut' = NoResponse
    /\ UNCHANGED <<config, filter>>

\* Mutation: the status test is > instead of >=.
ResponseAboveOnly(r, status) ==
    /\ active = 0
    /\ req[r].phase = "sent"
    /\ IF status > ERROR_STATUS
       THEN /\ errorCount' = errorCount + 1
            /\ req' = [req EXCEPT ![r].phase = "refused", ![r].status = status,
                                  ![r].settled = TRUE, ![r].errs = @ + 1]
            /\ Settle(r, "threw", NoVal, HttpError(status))
       ELSE /\ errorCount' = errorCount
            /\ req' = [req EXCEPT ![r].phase = "body", ![r].status = status]
            /\ UNCHANGED <<run, active>>
    /\ UNCHANGED <<cache, fetchCount, totalDataSize, lastCharacterId, netCalls, call>>
    /\ httpOut' = NoResponse
    /\ UNCHANGED <<config, filter>>

\* The callback of https.get: the status line and headers have arrived.
Response(r, status) ==
    /\ active = 0
    /\ req[r].phase = "sent"
    /\ IF status >= ERROR_STATUS
       THEN /\ errorCount' = errorCount + 1
            /\ req' = [req EXCEPT ![r].phase = "refused", ![r].status = status,
                                  ![r].settled = TRUE, ![r].errs = @ + 1]
            /\ Settle(r, "threw", NoVal, HttpError(status))
       ELSE /\ errorCount' = errorCount
            /\ req' = [req EXCEPT ![r].phase = "body", ![r].status = status]
            /\ UNCHANGED <<run, active>>
    /\ UNCHANGED <<cache, fetchCount, totalDataSize, lastCharacterId, netCalls, call>>
    /\ httpOut' = NoResponse
    /\ UNCHANGED <<config, filter>>

\* Mutation: a parse failure rejects without counting the error.
EndUncounted(r, body) ==
    /\ active = 0
    /\ req[r].phase = "body"
    /\ body \in ServiceBodies(req[r].endpoint)
    /\ IF IsJson(body)
       THEN /\ cache' = CachePut(cache, req[r].endpoint, JSONParse(body))
            /\ req' = [req EXCEPT ![r].phase = "closed", ![r].settled = TRUE,
                                  ![r].responseData = body]
            /\ Settle(r, "got", JSONParse(body), NoErr)
       ELSE /\ cache' = cache
            /\ req' = [req EXCEPT ![r].phase = "closed", ![r].settled = TRUE,
                                  ![r].responseData = body]
            /\ Settle(r, "threw", NoVal, ParseError)
    /\ UNCHANGED <<errorCount, fetchCount, totalDataSize, lastCharacterId, netCalls, call>>
    /\ httpOut' = NoResponse
    /\ UNCHANGED <<config, filter>>

\* Mutation: the cache is filled only while the endpoint has no entry.
EndWriteOnce(r, body) ==
    /\ active = 0
    /\ req[r].phase = "body"
    /\ body \in ServiceBodies(req[r].endpoint)
    /\ IF IsJson(body)
       THEN /\ cache' = IF req[r].endpoint \in DOMAIN cache THEN cache
                        ELSE CachePut(cache, req[r].endpoint, JSONParse(body))
            /\ errorCount' = errorCount
            /\ req' = [req EXCEPT ![r].phase = "closed", ![r].settled = TRUE,
                                  ![r].responseData = body]
            /\ Settle(r, "got", JSONParse(body), NoErr)
       ELSE /\ cache' = cache
            /\ errorCount' = errorCount + 1
            /\ req' = [req EXCEPT ![r].phase = "closed", ![r].settled = TRUE,
                                  ![r].responseData = body, ![r].errs = @ + 1]
            /\ Settle(r, "threw", NoVal, ParseError)
    /\ UNCHANGED <<fetchCount, totalDataSize, lastCharacterId, netCalls, call>>
    /\ httpOut' = NoResponse
    /\ UNCHANGED <<config, filter>>

\* The response completes: its 'data' events have appended the chunks of
\* `body` to responseData, and res.on('end') parses it; the value is stored
\* and the promise resolved, or the error is counted and the promise rejected.
End(r, body) ==
    /\ active = 0
    /\ req[r].phase = "body"
    /\ body \in ServiceBodies(req[r].endpoint)
    /\ IF IsJson(body)
       THEN /\ cache' = CachePut(cache, req[r].endpoint, JSONParse(body))
            /\ errorCount' = errorCount
            /\ req' = [req EXCEPT ![r].phase = "closed", ![r].settled = TRUE,
                                  ![r].responseData = body]
            /\ Settle(r, "got", JSONParse(body), NoErr)
       ELSE /\ cache' = cache
            /\ errorCount' = errorCount + 1
            /\ req' = [req EXCEPT ![r].phase = "closed", ![r].settled = TRUE,
                                  ![r].responseData = body, ![r].errs = @ + 1]
            /\ Settle(r, "threw", NoVal, ParseError)
    /\ UNCHANGED <<fetchCount, totalDataSize, lastCharacterId, netCalls, call>>
    /\ httpOut' = NoResponse
    /\ UNCHANGED <<config, filter>>

\* request.on('error'): a transport failure, or the socket hang up that
\* request.abort() raises when no response has arrived yet.
RequestError(r) ==
    /\ active = 0
    /\ req[r].phase \in {"sent", "body", "refused", "aborted"}
    /\ errorCount' = errorCount + 1
    /\ req' = [req EXCEPT ![r].phase = "closed", ![r].settled = TRUE,
                          ![r].errs = @ + 1]
    /\ Settle(r, "threw", NoVal, NetworkError)
    /\ UNCHANGED <<cache, fetchCount, totalDataSize, lastCharacterId, netCalls, call>>
    /\ httpOut' = NoResponse
    /\ UNCHANGED <<config, filter>>

\* Mutation: the timeout callback aborts the request and counts the error
\* but does not reject the promise.
TimeoutSilent(r) ==
    /\ active = 0
    /\ req[r].phase \in {"sent", "body", "refused"}
    /\ errorCount' = errorCount + 1
    /\ req' = [req EXCEPT ![r].phase = IF @ = "sent" THEN "aborted" ELSE "closed",
                          ![r].errs = @ + 1]
    /\ UNCHANGED <<run, active>>
    /\ UNCHANGED <<cache, fetchCount, totalDataSize, lastCharacterId, netCalls, call>>
    /\ httpOut' = NoResponse
    /\ UNCHANGED <<config, filter>>

\* The callback of request.setTimeout: the socket stayed idle for `timeout`
\* ms while the response was not complete.  request.abort() destroys the
\* socket; with no response received yet that emits 'error' on the request.
Timeout(r) ==
    /\ active = 0
    /\ req[r].phase \in {"sent", "body", "refused"}
    /\ errorCount' = errorCount + 1
    /\ req' = [req EXCEPT ![r].phase = IF @ = "sent" THEN "aborted" ELSE "closed",
                          ![r].settled = TRUE, ![r].errs = @ + 1]
    /\ Settle(r, "threw", NoVal, TimeoutError)
    /\ UNCHANGED <<cache, fetchCount, totalDataSize, lastCharacterId, netCalls, call>>
    /\ httpOut' = NoResponse
    /\ UNCHANGED <<config, filter>>

\* The service closes the connection of a response nobody reads.
SocketClose(r) ==
    /\ active = 0
    /\ req[r].phase = "refused"
    /\ req' = [req EXCEPT ![r].phase = "closed"]
    /\ UNCHANGED <<cache, errorCount, fetchCount, totalDataSize, lastCharacterId, run,
                   active, netCalls, call>>
    /\ httpOut' = NoResponse
    /\ UNCHANGED <<config, filter>>

\* --------------------------------------------------------- display routines
\* The property reads of the display routine of step k throw a TypeError on
\* this value: a field of null, or the results of a value that has none.
Throws(k, v) ==
    IF k \in {CharacterStep, VehicleStep} THEN v.kind = "null" ELSE v.kind # "page"

\* Mutation: runDemo calls displayFilms before displayLargePlanets.
DisplaySwapped(r) ==
    /\ active = r
    /\ run[r].pc = "got"
    /\ ~run[r].sync
    /\ totalDataSize' = totalDataSize + Size(run[r].val)
    /\ IF Throws(run[r].step, run[r].val)
       THEN /\ run' = [run EXCEPT ![r].pc = "threw", ![r].val = NoVal, ![r].err = TypeError]
            /\ active' = r
            /\ UNCHANGED <<cache, lastCharacterId>>
       ELSE /\ cache' = IF run[r].step = FilmsStep
                        THEN CachePut(cache, run[r].endpoint,
                                      JPage(SortByDate(run[r].val.results)))
                        ELSE cache
            /\ IF run[r].step = VehicleStep
               THEN /\ lastCharacterId' = lastCharacterId + 1
                    /\ run' = [run EXCEPT ![r].pc = "done", ![r].val = NoVal,
                                          ![r].bumps = @ + 1]
                    /\ active' = 0
               ELSE /\ lastCharacterId' = lastCharacterId
                    /\ run' = [run EXCEPT ![r].pc = "call", ![r].val = NoVal,
                                          ![r].step = CASE @ = StarshipsStep -> FilmsStep
                                                        [] @ = FilmsStep -> PlanetsStep
                                                        [] @ = PlanetsStep -> VehicleStep
                                                        [] OTHER -> @ + 1]
                    /\ active' = r
    /\ UNCHANGED <<errorCount, fetchCount, req, netCalls, call>>
    /\ httpOut' = NoResponse
    /\ UNCHANGED <<config, filter>>

\* Mutation: only a value that came from the network is added to the size.
DisplayNetworkOnly(r) ==
    /\ active = r
    /\ run[r].pc = "got"
    /\ ~run[r].sync
    /\ totalDataSize' = IF call.run = r /\ call.cached THEN totalDataSize
                        ELSE totalDataSize + Size(run[r].val)
    /\ IF Throws(run[r].step, run[r].val)
       THEN /\ run' = [run EXCEPT ![r].pc = "threw", ![r].val = NoVal, ![r].err = TypeError]
            /\ active' = r
            /\ UNCHANGED <<cache, lastCharacterId>>
       ELSE /\ cache' = IF run[r].step = FilmsStep
                        THEN CachePut(cache, run[r].endpoint,
                                      JPage(SortByDate(run[r].val.results)))
                        ELSE cache
            /\ IF run[r].step = VehicleStep
               THEN /\ lastCharacterId' = lastCharacterId + 1
                    /\ run' = [run EXCEPT ![r].pc = "done", ![r].val = NoVal,
                                          ![r].bumps = @ + 1]
                    /\ active' = 0
               ELSE /\ lastCharacterId' = lastCharacterId
                    /\ run' = [run EXCEPT ![r].pc = "call", ![r].val = NoVal,
                                          ![r].step = @ + 1]
                    /\ active' = r
    /\ UNCHANGED <<errorCount, fetchCount, req, netCalls, call>>
    /\ httpOut' = NoResponse
    /\ UNCHANGED <<config, filter>>

\* The body of a display routine after its await: add the payload size,
\* print (films are sorted in place, in the object the cache holds), and for
\* the vehicle advance the cursor; then the next routine, or displayStats.
Display(r) ==
    /\ active = r
    /\ run[r].pc = "got"
    /\ ~run[r].sync
    /\ totalDataSize' = totalDataSize + Size(run[r].val)
    /\ IF Throws(run[r].step, run[r].val)
       THEN /\ run' = [run EXCEPT ![r].pc = "threw", ![r].val = NoVal, ![r].err = TypeError]
            /\ active' = r
            /\ UNCHANGED <<cache, lastCharacterId>>
       ELSE /\ cache' = IF run[r].step = FilmsStep
                        THEN CachePut(cache, run[r].endpoint,
                                      JPage(SortByDate(run[r].val.results)))
                        ELSE cache
            /\ IF run[r].step = VehicleStep
               THEN /\ lastCharacterId' = lastCharacterId + 1
                    /\ run' = [run EXCEPT ![r].pc = "done", ![r].val = NoVal,
                                          ![r].bumps = @ + 1]
                    /\ active' = 0
               ELSE /\ lastCharacterId' = lastCharacterId
                    /\ run' = [run EXCEPT ![r].pc = "call", ![r].val = NoVal,
                                          ![r].step = @ + 1]
                    /\ active' = r
    /\ UNCHANGED <<errorCount, fetchCount, req, netCalls, call>>
    /\ httpOut' = NoResponse
    /\ UNCHANGED <<config, filter>>

\* Mutation: the catch block starts the failed step again.
CatchRetry(r) ==
    /\ active = r
    /\ run[r].pc = "threw"
    /\ errorCount' = errorCount + 1
    /\ run' = [run EXCEPT ![r].pc = "call"]
    /\ active' = r
    /\ UNCHANGED <<cache, fetchCount, totalDataSize, lastCharacterId, req, netCalls, call>>
    /\ httpOut' = NoResponse
    /\ UNCHANGED <<config, filter>>

\* Mutation: the catch block reports the error without counting it.
CatchUncounted(r) ==
    /\ active = r
    /\ run[r].pc = "threw"
    /\ errorCount' = errorCount
    /\ run' = [run EXCEPT ![r].pc = "failed"]
    /\ active' = 0
    /\ UNCHANGED <<cache, fetchCount, totalDataSize, lastCharacterId, req, netCalls, call>>
    /\ httpOut' = NoResponse
    /\ UNCHANGED <<config, filter>>

\* The catch block of runDemo.
Catch(r) ==
    /\ active = r
    /\ run[r].pc = "threw"
    /\ errorCount' = errorCount + 1
    /\ run' = [run EXCEPT ![r].pc = "failed"]
    /\ active' = 0
    /\ UNCHANGED <<cache, fetchCount, totalDataSize, lastCharacterId, req, netCalls, call>>
    /\ httpOut' = NoResponse
    /\ UNCHANGED <<config, filter>>

\* ------------------------------------------------------------- HTTP server
\* The JSON object of the /stats route.
StatsBody ==
    [api_calls |-> fetchCount, cache_size |-> CacheSize, data_size |-> totalDataSize,
     errors |-> errorCount, debug |-> debugMode, timeout |-> timeout]

\* The footer that the page of the / route embeds.
IndexBody ==
    [text |-> "Star Wars API Demo", api_calls |-> fetchCount, cache_entries |-> CacheSize,
     errors |-> errorCount, debug |-> IF debugMode THEN "ON" ELSE "OFF",
     timeout |-> timeout]

Urls == {"/", "/index.html", "/api", "/stats", "/favicon.ico"}

program == <<cache, errorCount, fetchCount, totalDataSize, lastCharacterId, run, req,
             active, netCalls, call>>

\* GET / and GET /index.html: the page, with the counters in its footer.
ServeIndex(url) ==
    /\ active = 0
    /\ url \in {"/", "/index.html"}
    /\ httpOut' = [route |-> "/", status |-> 200, type |-> "text/html", body |-> IndexBody]
    /\ UNCHANGED program
    /\ UNCHANGED <<config, filter>>

\* GET /api, first part: runDemo() is entered and counts the run.  The run
\* then calls fetchResource for the character (Call) before the handler
\* writes its response (ApiRespond).
ServeApi(r) ==
    /\ active = 0
    /\ run[r].pc = "idle"
    /\ r > 1 => run[r - 1].pc # "idle"
    /\ fetchCount' = fetchCount + 1
    /\ run' = [q \in Runs |->
                 IF q = r
                 THEN [IdleRun EXCEPT !.pc = "call", !.step = CharacterStep, !.sync = TRUE,
                                      !.errAtStart = errorCount,
                                      !.solo = \A o \in Runs \ {r} : Quiet(o)]
                 ELSE IF Ended(q) THEN run[q] ELSE [run[q] EXCEPT !.solo = FALSE]]
    /\ active' = r
    /\ UNCHANGED <<cache, errorCount, totalDataSize, lastCharacterId, req, netCalls, call>>
    /\ httpOut' = NoResponse
    /\ UNCHANGED <<config, filter>>

\* Mutation: the handler awaits runDemo() and so returns to the event loop
\* without having answered.
ApiRespondAwaiting(r) ==
    /\ active = r
    /\ run[r].sync
    /\ run[r].pc \in {"wait", "got"}
    /\ run' = [run EXCEPT ![r].sync = FALSE]
    /\ active' = IF run[r].pc = "wait" THEN 0 ELSE r
    /\ UNCHANGED <<cache, errorCount, fetchCount, totalDataSize, lastCharacterId, req,
                   netCalls, call>>
    /\ httpOut' = NoResponse
    /\ UNCHANGED <<config, filter>>

\* GET /api, last part: runDemo() has returned its pending promise; the
\* handler answers and returns, and the run's continuation (if its first
\* value came from the cache) runs next.
ApiRespond(r) ==
    /\ active = r
    /\ run[r].sync
    /\ run[r].pc \in {"wait", "got"}
    /\ run' = [run EXCEPT ![r].sync = FALSE, ![r].ack = ApiAck]
    /\ active' = IF run[r].pc = "wait" THEN 0 ELSE r
    /\ UNCHANGED <<cache, errorCount, fetchCount, totalDataSize, lastCharacterId, req,
                   netCalls, call>>
    /\ httpOut' = ApiAck
    /\ UNCHANGED <<config, filter>>

\* Mutation: reading the statistics starts a new error count.
ServeStatsResetting ==
    /\ active = 0
    /\ httpOut' = [route |-> "/stats", status |-> 200, type |-> "application/json",
                   body |-> StatsBody]
    /\ errorCount' = 0
    /\ UNCHANGED <<cache, fetchCount, totalDataSize, lastCharacterId, run, req, active,
                   netCalls, call>>
    /\ UNCHANGED <<config, filter>>

\* GET /stats: the counters and the configuration as a JSON object.
ServeStats ==
    /\ active = 0
    /\ httpOut' = [route |-> "/stats", status |-> 200, type |-> "application/json",
                   body |-> StatsBody]
    /\ UNCHANGED program
    /\ UNCHANGED <<config, filter>>

\* Any other path: 404 Not Found.
ServeNotFound(url) ==
    /\ active = 0
    /\ url \notin {"/", "/index.html", "/api", "/stats"}
    /\ httpOut' = [route |-> "*", status |-> 404, type |-> "text/plain",
                   body |-> [text |-> "Not Found"]]
    /\ UNCHANGED program
    /\ UNCHANGED <<config, filter>>

\* ------------------------------------------------- displayLargePlanets
\* The forEach callback of displayLargePlanets on one element: the planet is
\* printed when it passes the test, and skipped otherwise.
FilterPlanet ==
    /\ shown = "pending"
    /\ shown' = IF IsLarge(planet) THEN "printed" ELSE "skipped"
    /\ UNCHANGED <<planet, program, httpOut, config>>

\* forEach goes on to the next element of the page.
NextPlanet ==
    /\ shown \in {"printed", "skipped"}
    /\ planet' \in Planets
    /\ shown' = "pending"
    /\ UNCHANGED <<program, httpOut, config>>

\* ------------------------------------------------------------ specification
Next ==
    \/ \E r \in Runs : ServeApi(r)
    \/ \E r \in Runs : Call(r)
    \/ \E r \in Runs : ApiRespond(r)
    \/ \E r \in Runs, status \in Statuses : Response(r, status)
    \/ \E r \in Runs, body \in Bodies : End(r, body)
    \/ \E r \in Runs : RequestError(r)
    \/ \E r \in Runs : Timeout(r)
    \/ \E r \in Runs : SocketClose(r)
    \/ \E r \in Runs : Display(r)
    \/ \E r \in Runs : Catch(r)
    \/ \E url \in Urls : ServeIndex(url)
    \/ ServeStats
    \/ \E url \in Urls : ServeNotFound(url)

Spec == Init /\ [][Next]_vars

\* The same server, observed from the state after WarmRuns earlier runs.
SpecWarm == InitWarm /\ [][Next]_vars

\* An event of the request of run r: a response, its end, an error or the
\* timeout.
NetEvent(r) ==
    \/ \E status \in Statuses : Response(r, status)
    \/ \E body \in Bodies : End(r, body)
    \/ RequestError(r)
    \/ Timeout(r)

\* The continuation of run r after the call or the await it is at.
Continue(r) == Call(r) \/ ApiRespond(r) \/ Display(r) \/ Catch(r)

\* The event loop runs every ready continuation, and every request gets a
\* response, an error or its timeout, although other events may be handled
\* in between.
Fairness == \A r \in Runs : WF_vars(Continue(r)) /\ SF_vars(NetEvent(r))

\* The server after WarmRuns earlier runs, under that scheduling.
SpecWarmFair == InitWarm /\ [][Next]_vars /\ Fairness

\* The filter of displayLargePlanets alone, on every planet of Planets.
InitFilter ==
    /\ debugMode = DebugFromArgs(<<>>)
    /\ timeout = TimeoutFromArgs(<<>>)
    /\ cache = <<>>
    /\ errorCount = 0
    /\ fetchCount = 0
    /\ totalDataSize = 0
    /\ lastCharacterId = 1
    /\ run = [r \in Runs |-> IdleRun]
    /\ req = [r \in Runs |-> NoReq]
    /\ active = 0
    /\ netCalls = [e \in Endpoints |-> 0]
    /\ call = NoCall
    /\ httpOut = NoResponse
    /\ planet \in Planets
    /\ shown = "pending"

NextFilter == FilterPlanet \/ NextPlanet

SpecFilter == InitFilter /\ [][NextFilter]_vars

\* ------------------------------------------------------------------ claims
\* A step in which some run calls fetchResource.
Called == call'.n # call.n

\* C1: once a fetchResource(endpoint) call has returned successfully (which
\* is when the cache received an entry for the endpoint), every later
\* fetchResource(endpoint) call is served from the cache: it issues no
\* network request and returns the value the cache holds.
C1_SecondFetchFromCache ==
    [][(Called /\ call'.endpoint \in DOMAIN cache)
         => /\ call'.cached
            /\ netCalls' = netCalls
            /\ run'[call'.run].val = cache[call'.endpoint]]_vars

\* C2: the cache is write-once per key: an entry, once present, is never
\* replaced, modified or removed by any step.
C2_CacheWriteOnce ==
    [][\A e \in DOMAIN cache : e \in DOMAIN cache' /\ cache'[e] = cache[e]]_vars

\* C3: when the response to an uncached fetchResource call has status >= 400
\* the call is rejected with an HTTP error carrying that status and the cache
\* is left as it was; no later event of that request writes the cache either.
C3_HttpErrorNotCached ==
    [][\A r \in Runs :
         /\ (req[r].phase = "sent" /\ req'[r].phase # "sent"
             /\ req'[r].status >= 400)
              => /\ cache' = cache
                 /\ run'[r].pc = "threw"
                 /\ run'[r].err = HttpError(req'[r].status)
         /\ (req[r].phase = "refused" /\ req'[r] # req[r]) => cache' = cache]_vars

C3_Witness ==
    \E r \in Runs :
        /\ req[r].phase = "refused" /\ req[r].status = 400
        /\ run[r].pc = "threw" /\ run[r].err = HttpError(400)
        /\ req[r].endpoint \notin DOMAIN cache

\* C4: when a response with a successful status completes with a body that
\* is not valid JSON, the call is rejected with a parse error, the error
\* counter is incremented by one and the cache is left as it was.
C4_ParseErrorNotCached ==
    [][\A r \in Runs :
         (req[r].phase = "body" /\ req'[r].phase = "closed"
          /\ req'[r].responseData # "" /\ ~IsJson(req'[r].responseData))
           => /\ run'[r].pc = "threw"
              /\ run'[r].err = ParseError
              /\ errorCount' = errorCount + 1
              /\ cache' = cache]_vars

C4_Witness ==
    \E r \in Runs :
        /\ req[r].phase = "closed" /\ req[r].responseData = "<html>"
        /\ run[r].pc = "threw" /\ run[r].err = ParseError
        /\ req[r].endpoint \notin DOMAIN cache
        /\ errorCount = run[r].errAtStart + 1

\* C5: for a call that failed with a timeout error, the handlers of its
\* request (the timeout callback and the 'error' handler that the abort
\* triggers) have together incremented the error counter exactly once.
C5_TimeoutCountedOnce ==
    \A r \in Runs : run[r].err = TimeoutError => req[r].errs = 1

\* C6: a fetchResource call served from the cache leaves the cache, the
\* counters fetchCount and errorCount and the cursor as they were, and
\* starts no network request.
C6_CacheHitChangesNothing ==
    [][(Called /\ call'.cached)
         => /\ cache' = cache
            /\ fetchCount' = fetchCount
            /\ errorCount' = errorCount
            /\ lastCharacterId' = lastCharacterId
            /\ netCalls' = netCalls
            /\ req' = req]_vars

C6_Witness ==
    /\ call.cached
    /\ run[call.run].pc = "got"
    /\ run[call.run].val = cache[call.endpoint]
    /\ netCalls[call.endpoint] = 1

\* C7: once a fetchResource call of a run has failed, the run issues no
\* further network request, stays at the step that failed (no retry, no
\* later step) and has not advanced the cursor.
C7_FailFast ==
    [][\A r \in Runs :
         (run[r].pc \in {"threw", "failed"} /\ run[r].err.type \in FetchErrorTypes)
           => /\ run'[r].pc \in {"threw", "failed"}
              /\ run'[r].err = run[r].err
              /\ run'[r].step = run[r].step
              /\ run'[r].issued = run[r].issued
              /\ run'[r].bumps = 0]_vars

C7_Witness ==
    \E r \in Runs :
        /\ run[r].pc = "failed" /\ run[r].err.type \in FetchErrorTypes
        /\ run[r].step = PlanetsStep /\ run[r].issued = PlanetsStep
        /\ lastCharacterId = 1

\* C8: GET /api is answered with the 200 acknowledgement before the handler
\* returns: whenever a run is past the handler (waiting for its first fetch,
\* at a later step, completed or failed) that same response has been sent,
\* and no event of the run's requests is handled before it.
C8_ApiAnsweredAtOnce ==
    \A r \in Runs :
        /\ (run[r].pc # "idle" /\ ~run[r].sync)
             => (run[r].ack = ApiAck /\ run[r].ack.status = 200)
        /\ run[r].sync => (run[r].step = CharacterStep /\ req[r].phase \in {"none", "sent"})

C8_Witness ==
    \E r, q \in Runs :
        /\ run[r].ack = ApiAck /\ run[r].pc = "wait" /\ run[r].step = CharacterStep
        /\ req[r].phase = "sent"
        /\ run[q].ack = ApiAck /\ run[q].pc = "failed"

\* No /api request has been handled yet.
Fresh == \A r \in Runs : run[r].pc = "idle"

StartupStats ==
    [api_calls |-> 0, cache_size |-> 0, data_size |-> 0, errors |-> 0,
     debug |-> TRUE, timeout |-> 5000]

\* C9: after a startup without flags and before any /api request, /stats
\* reports zero counters, debug = true and timeout = 5000; and a /stats
\* request answers with the current values and changes none of them.
C9_StatsAtStartup ==
    /\ [](( /\ Fresh
            /\ debugMode = DebugFromArgs(<<>>)
            /\ timeout = TimeoutFromArgs(<<>>)) => StatsBody = StartupStats)
    /\ [][httpOut'.route = "/stats"
            => (httpOut'.body = StatsBody /\ StatsBody' = StatsBody)]_vars

C9_Witness ==
    /\ Fresh
    /\ httpOut.route = "/stats"
    /\ httpOut.body = StartupStats

C11_DuplicateRequestsWrite ==
    [][\A r \in Runs :
         (/\ req[r].phase = "body" /\ req'[r].phase = "closed"
          /\ IsJson(req'[r].responseData)
          /\ \E q \in Runs \ {r} :
                /\ req[q].endpoint = req[r].endpoint
                /\ req[q].phase \in {"sent", "body", "closed"})
           => /\ req[r].endpoint \in DOMAIN cache'
              /\ cache'[req[r].endpoint] = JSONParse(req'[r].responseData)]_vars

\* Both requests were in flight together (the second was issued before the
\* first stored its truthy value), and both have written the entry.
C11_Witness ==
    \E r, q \in Runs :
        /\ r # q
        /\ req[r].endpoint = req[q].endpoint
        /\ req[r].phase = "closed" /\ req[r].responseData = Stringify(JObj)
        /\ req[q].phase = "closed" /\ req[q].responseData = Stringify(JZero)
        /\ netCalls[req[q].endpoint] = 2
        /\ cache[req[q].endpoint] = JZero

\* C12: a run takes its steps in the order character, starships, planets,
\* films, vehicle: it moves to the next step only from a step whose fetch
\* has returned its value, each of its fetchResource calls is for the
\* endpoint of its current step, and when it issues a request its previous
\* request has completed, so that it never has two requests in flight.
C12_StepsInOrder ==
    [][\A r \in Runs :
         /\ run'[r].step # run[r].step
              => \/ (run[r].pc = "idle" /\ run'[r].step = CharacterStep)
                 \/ (run[r].pc = "got" /\ run'[r].step = run[r].step + 1)
         /\ (Called /\ call'.run = r)
              => /\ call'.endpoint = Endpoint(run[r].step, lastCharacterId)
                 /\ req[r].phase \in {"none", "closed"}
                 /\ run[r].issued < run[r].step]_vars

C12_Witness ==
    \E r \in Runs :
        /\ run[r].pc = "done"
        /\ run[r].step = VehicleStep
        /\ run[r].issued = VehicleStep
        /\ req[r].endpoint = Endpoint(VehicleStep, lastCharacterId - 1)

\* C13: displayVehicle calls fetchResource only while the cursor is at most
\* MAX_VEHICLE_ID, for the endpoint vehicles/<cursor at that test>; once that
\* fetch has returned a value the step increases the cursor by exactly one;
\* with a cursor above MAX_VEHICLE_ID the step makes no call, issues no
\* request and leaves the cursor as it is.
C13_VehicleCursor ==
    [][\A r \in Runs :
         /\ (Called /\ call'.run = r /\ run[r].step = VehicleStep)
              => /\ lastCharacterId <= MAX_VEHICLE_ID
                 /\ call'.endpoint = "vehicles/" \o Digit(lastCharacterId)
                 /\ lastCharacterId' = lastCharacterId
         /\ (run[r].step = VehicleStep /\ run[r].pc = "got" /\ run'[r].pc # "got")
              => lastCharacterId' = lastCharacterId + 1
         /\ (run[r].step = VehicleStep /\ run[r].pc = "call" /\ run'[r].pc # "call"
             /\ lastCharacterId > MAX_VEHICLE_ID)
              => /\ ~Called
                 /\ netCalls' = netCalls
                 /\ lastCharacterId' = lastCharacterId]_vars

\* The sizes of the five values that the run showing character id fetched,
\* as the cache holds them.
RunPayload(id) ==
    Size(cache[Endpoint(CharacterStep, id)]) + Size(cache[Endpoint(StarshipsStep, id)])
    + Size(cache[Endpoint(PlanetsStep, id)]) + Size(cache[Endpoint(FilmsStep, id)])
    + Size(cache[Endpoint(VehicleStep, id)])

RECURSIVE SumPayload(_)
SumPayload(n) == IF n = 0 THEN 0 ELSE RunPayload(n) + SumPayload(n - 1)

\* C14: a step whose fetchResource call returned a value adds the length of
\* the JSON text of that value to totalDataSize, from the network and from
\* the cache alike; so when the runs have all completed, one after the other,
\* totalDataSize is the sum of the sizes of the five values of each run.
C14_SizeAdded ==
    /\ [][\A r \in Runs :
            (run[r].pc = "got" /\ run'[r].pc # "got")
              => totalDataSize' = totalDataSize + Size(run[r].val)]_vars
    /\ []((\A r \in Runs : run[r].pc = "done" /\ run[r].solo)
            => totalDataSize = SumPayload(MaxRuns))

C14_Witness ==
    /\ \A r \in Runs : run[r].pc = "done" /\ run[r].solo
    /\ totalDataSize = SumPayload(MaxRuns)
    /\ netCalls[Endpoint(FilmsStep, 1)] = 1
    /\ cache[Endpoint(CharacterStep, 1)] = JZero

counters == <<fetchCount, errorCount, totalDataSize, lastCharacterId>>

\* A step of fetchResource: the call itself or a handler of its request.
FetchClientStep == Called \/ req' # req

\* A step of displayVehicle.
VehicleRoutineStep == \E r \in Runs : run[r].step = VehicleStep /\ run'[r] # run[r]

IsNumeral(t) ==
    /\ t # <<>>
    /\ \A i \in 1..Len(t) : IsDigitOf(t[i], 10) \/ t[i] = "."
    /\ Cardinality({i \in 1..Len(t) : t[i] = "."}) <= 1
    /\ t[1] # "." /\ t[Len(t)] # "."

\* The numeral denotes a number strictly greater than the integer n.
NumeralExceeds(t, n) ==
    LET dots == {i \in 1..Len(t) : t[i] = "."}
        whole == IF dots = {} THEN t ELSE SubSeq(t, 1, (CHOOSE i \in dots : TRUE) - 1)
        fraction == IF dots = {} THEN <<>>
                    ELSE SubSeq(t, (CHOOSE i \in dots : TRUE) + 1, Len(t))
    IN  \/ DigitsValue(whole, 10) > n
        \/ DigitsValue(whole, 10) = n /\ \E i \in 1..Len(fraction) : fraction[i] # "0"

\* C16: the filter prints a planet exactly when its population is numeric
\* and greater than 1,000,000,000 and its diameter is numeric and greater
\* than 10,000; a planet with a field that is not numeric is skipped.
C16_LargePlanetFilter ==
    shown \in {"printed", "skipped"}
      => (shown = "printed"
            <=> /\ IsNumeral(planet.population)
                /\ NumeralExceeds(planet.population, LARGE_POPULATION)
                /\ IsNumeral(planet.diameter)
                /\ NumeralExceeds(planet.diameter, LARGE_DIAMETER))

\* C17: the handlers of the request of one fetchResource call increment
\* errorCount at most once between them, whatever the order of its response,
\* error and timeout events, and not at all when the call has resolved with
\* the parsed value.
C17_ErrorCountedOncePerCall ==
    \A r \in Runs :
        /\ req[r].errs <= 1
        /\ (req[r].responseData # "" /\ IsJson(req[r].responseData)) => req[r].errs = 0

\* C18: the cursor always satisfies 1 <= lastCharacterId <= MAX_VEHICLE_ID + 1,
\* also when runs interleave, so that no request for a vehicle above
\* MAX_VEHICLE_ID or a character above MAX_VEHICLE_ID + 1 is ever issued.
C18_CursorBounded ==
    /\ lastCharacterId >= 1
    /\ lastCharacterId <= MAX_VEHICLE_ID + 1
    /\ \A id \in CursorValues :
          /\ id > MAX_VEHICLE_ID => netCalls[Endpoint(VehicleStep, id)] = 0
          /\ id > MAX_VEHICLE_ID + 1 => netCalls[Endpoint(CharacterStep, id)] = 0

\* The /api requests handled so far, each of which started a run.
Started == {r \in Runs : run[r].pc # "idle"}

\* C19: fetchCount is the number of runs started so far, whatever number of
\* requests the runs issued, cache hits they had, or errors they met; the
\* step that starts a run adds one to it before the run's first fetch.
C19_FetchCountIsRuns ==
    /\ [](fetchCount = Cardinality(Started))
    /\ [][\A r \in Runs :
            (run[r].pc = "idle" /\ run'[r].pc # "idle")
              => /\ fetchCount' = fetchCount + 1
                 /\ ~Called
                 /\ run'[r].issued = 0]_vars

C19_Witness ==
    /\ fetchCount = 2
    /\ \E r, q \in Runs :
          /\ run[r].pc = "failed" /\ run[r].issued = 2
          /\ run[q].pc = "done" /\ run[q].issued = 4
          /\ netCalls[Endpoint(CharacterStep, 1)] = 1

\* C20: every started run ends, completed or failed with its error caught
\* by runDemo's catch block; an error thrown in a run goes nowhere else; and
\* the event loop is free again and again, so that the server keeps taking
\* requests.
C20_RunsEnd ==
    /\ \A r \in Runs : (run[r].pc # "idle") ~> (run[r].pc \in {"done", "failed"})
    /\ [][\A r \in Runs : run[r].pc = "threw" => run'[r].pc \in {"threw", "failed"}]_vars
    /\ []<>(active = 0)

C20_Witness ==
    \E r, q \in Runs :
        /\ run[r].pc = "failed" /\ run[r].err = TimeoutError
        /\ run[q].pc = "done"
        /\ active = 0
        /\ \A o \in Runs : req[o].phase = "closed"

====
